---- MODULE Spec2Model ----
(***************************************************************************)
(* Silhouette score of a clustering, as computed by                        *)
(* src/experiments/clustering/silhouette_score/src/main.rs.                *)
(*                                                                         *)
(* f64 values are modelled in fixed point: a finite f64 x is the integer   *)
(* x * Scale, and every arithmetic operation rounds its result to the      *)
(* nearest multiple of 1/Scale (as f64 rounds to the nearest representable *)
(* value).  The three non-finite values (NaN, +inf, -inf) are modelled     *)
(* explicitly ([k |-> "inf", v |-> -1] is -inf) with the IEEE-754 rules.   *)
(* Signed zeros are not distinguished: no comparison in the code tells     *)
(* them apart.                                                             *)
(*                                                                         *)
(* The HashMap `clusters` is modelled as the sequence of its values in the *)
(* order its keys are iterated: a cluster's label is its position.  The    *)
(* code uses labels only as keys and compares them only for equality       *)
(* (line 90), and Init enumerates every sequence, so every map with every  *)
(* iteration order is covered up to a renaming of the labels.              *)
(***************************************************************************)
EXTENDS Integers, Sequences, FiniteSets

VARIABLES clusters, centroids, scores, locals, pc, ci, pi, score, panic

vars == <<clusters, centroids, scores, locals, pc, ci, pi, score, panic>>

\* ------------------------------------------------------------------ bounds
\* Resolution of the fixed-point model of f64: 1.0 is Scale.
Scale == 1024
\* A dataset holds at most MaxValues coordinates (f64 values) in all.
MaxValues == 4
\* Coordinates are the integers 0..MaxCoord.
MaxCoord == 1
\* A point has 1..MaxDim coordinates.
MaxDim == 2

\* ------------------------------------------------------------- f64 values
Fin(n) == [k |-> "fin", v |-> n]
NaN == [k |-> "nan", v |-> 0]
PInf == [k |-> "inf", v |-> 1]

IsFinite(x) == x.k = "fin"
IsNaN(x) == x.k = "nan"

Abs(n) == IF n < 0 THEN -n ELSE n
Sign(n) == IF n < 0 THEN -1 ELSE IF n > 0 THEN 1 ELSE 0

\* n / d rounded to the nearest integer, d > 0.
RoundDiv(n, d) == Sign(n) * ((2 * Abs(n) + d) \div (2 * d))

RECURSIVE ISqrtBetween(_, _, _)
\* The largest r in lo..hi with r * r <= n.
ISqrtBetween(n, lo, hi) ==
    IF lo >= hi THEN lo
    ELSE LET mid == (lo + hi + 1) \div 2
         IN IF mid * mid <= n THEN ISqrtBetween(n, mid, hi)
            ELSE ISqrtBetween(n, lo, mid - 1)

\* The square root of n rounded to the nearest integer.
ISqrt(n) ==
    LET r == ISqrtBetween(n, 0, 46340)
    IN IF n - r * r > r THEN r + 1 ELSE r

FromInt(i) == Fin(i * Scale)

FNeg(x) == IF IsFinite(x) THEN Fin(-x.v) ELSE IF IsNaN(x) THEN NaN
           ELSE [k |-> "inf", v |-> -x.v]

FAdd(x, y) ==
    CASE IsNaN(x) \/ IsNaN(y) -> NaN
      [] IsFinite(x) /\ IsFinite(y) -> Fin(x.v + y.v)
      [] IsFinite(x) -> y
      [] IsFinite(y) -> x
      [] OTHER -> IF x.v = y.v THEN x ELSE NaN

FSub(x, y) == FAdd(x, FNeg(y))

FMul(x, y) ==
    CASE IsNaN(x) \/ IsNaN(y) -> NaN
      [] IsFinite(x) /\ IsFinite(y) -> Fin(RoundDiv(x.v * y.v, Scale))
      [] OTHER -> IF Sign(x.v) * Sign(y.v) = 0 THEN NaN
                  ELSE [k |-> "inf", v |-> Sign(x.v) * Sign(y.v)]

FDiv(x, y) ==
    CASE IsNaN(x) \/ IsNaN(y) -> NaN
      [] IsFinite(x) /\ IsFinite(y) ->
            IF y.v = 0
            THEN IF x.v = 0 THEN NaN ELSE [k |-> "inf", v |-> Sign(x.v)]
            ELSE Fin(RoundDiv(Sign(y.v) * x.v * Scale, Abs(y.v)))
      [] IsFinite(x) -> Fin(0)
      [] IsFinite(y) -> [k |-> "inf", v |-> x.v * (IF y.v < 0 THEN -1 ELSE 1)]
      [] OTHER -> NaN

\* x < y on f64: false when either side is NaN.
FLt(x, y) ==
    CASE IsNaN(x) \/ IsNaN(y) -> FALSE
      [] IsFinite(x) /\ IsFinite(y) -> x.v < y.v
      [] IsFinite(x) -> y.v > 0
      [] IsFinite(y) -> x.v < 0
      [] OTHER -> x.v < y.v

\* f64::max: a NaN operand is ignored.
FMax(x, y) ==
    CASE IsNaN(x) -> y
      [] IsNaN(y) -> x
      [] OTHER -> IF FLt(x, y) THEN y ELSE x

\* ------------------------------------------------------- pure functions
Ok(x) == [err |-> "none", val |-> x]
Panic(msg) == [err |-> msg, val |-> <<>>]

\* The number of elements of the sequence s that are below s[i], counting
\* equal elements left of i: the position of s[i] after a stable sort, less 1.
Rank(s, i) ==
    Cardinality({j \in 1..Len(s) : s[j] < s[i] \/ (s[j] = s[i] /\ j < i)})

\* values.clone() sorted ascending.
Sorted(values) ==
    [r \in 1..Len(values) |->
        values[CHOOSE i \in 1..Len(values) : Rank(values, i) = r - 1]]

\* compute_median, on finite values (fixed point).
compute_median(values) ==
    LET sorted_values == Sorted(values)
        len == Len(sorted_values)
    IN IF len = 0 THEN Panic("EmptyMedian")
       ELSE IF len % 2 = 1 THEN Ok(sorted_values[len \div 2 + 1])
       ELSE LET mid1 == sorted_values[len \div 2]
                mid2 == sorted_values[len \div 2 + 1]
            IN Ok(RoundDiv(mid1 + mid2, 2))

RECURSIVE CentroidFrom(_, _, _)
\* The loop of compute_centroid from the (1-based) index i on, centroid
\* being what was pushed so far: it reads points[i], and panics when that
\* index is out of range or when the median does.
CentroidFrom(points, i, centroid) ==
    IF i > Len(points[1]) THEN Ok(centroid)
    ELSE IF i > Len(points) THEN Panic("IndexOutOfBounds")
    ELSE LET median == compute_median(points[i])
         IN IF median.err # "none" THEN median
            ELSE CentroidFrom(points, i + 1, Append(centroid, median.val))

compute_centroid(points) ==
    IF Len(points) = 0 THEN Panic("EmptyCluster")
    ELSE CentroidFrom(points, 1, <<>>)

RECURSIVE SumFrom(_, _)
\* sum += v over values[i..]
SumFrom(values, i) ==
    IF i > Len(values) THEN Fin(0)
    ELSE FAdd(values[i], SumFrom(values, i + 1))

compute_mean(values) == FDiv(SumFrom(values, 1), FromInt(Len(values)))

RECURSIVE SumOfSquares(_, _, _)
SumOfSquares(point_a, point_b, i) ==
    IF i > Len(point_a) THEN 0
    ELSE RoundDiv((point_a[i] - point_b[i]) * (point_a[i] - point_b[i]), Scale)
         + SumOfSquares(point_a, point_b, i + 1)

\* euclidean_metric on finite points (fixed point); the result is finite.
euclidean_metric(point_a, point_b) ==
    IF Len(point_a) # Len(point_b) THEN Panic("DimensionMismatch")
    ELSE Ok(Fin(ISqrt(SumOfSquares(point_a, point_b, 1) * Scale)))

\* points.len() as f64 / (points.len() as f64 - 1.0)
Ratio(points) == FDiv(FromInt(Len(points)), FSub(FromInt(Len(points)), FromInt(1)))

RECURSIVE NearestFrom(_, _, _, _, _)
\* The loop over cluster_number2 from position j on, b being the minimum
\* so far: the cluster's own number is skipped, a panic of the metric ends
\* the loop.
NearestFrom(point, own, cents, j, b) ==
    IF j > Len(cents) THEN Ok(b)
    ELSE IF j = own THEN NearestFrom(point, own, cents, j + 1, b)
    ELSE LET d == euclidean_metric(point, cents[j])
         IN IF d.err # "none" THEN d
            ELSE NearestFrom(point, own, cents, j + 1,
                             IF FLt(d.val, b) THEN d.val ELSE b)

\* The loop without the `continue` for the cluster's own number.
SeparationOwnIncluded(point, own, cents) == NearestFrom(point, 0, cents, 1, PInf)

\* let mut b = f64::INFINITY; for cluster_number2 in ... { ... }
Separation(point, own, cents) == NearestFrom(point, own, cents, 1, PInf)

\* a without the factor ratio.
CohesionUnscaled(ratio, d) == d

\* let a = ratio * d
Cohesion(ratio, d) == FMul(ratio, d)

\* let s = (b - a) / a.max(b)
Coefficient(a, b) == FDiv(FSub(b, a), FMax(a, b))

\* ------------------------------------------------------------------ inputs
Coords == {i * Scale : i \in 0..MaxCoord}

PointsOfDim(d) == [1..d -> Coords]

Min(x, y) == IF x < y THEN x ELSE y

RECURSIVE NumValues(_, _)
\* The number of coordinates in points[i..].
NumValues(points, i) ==
    IF i > Len(points) THEN 0 ELSE Len(points[i]) + NumValues(points, i + 1)

RECURSIVE ClustersUpTo(_)
\* The non-empty vectors of points that hold at most v coordinates.
ClustersUpTo(v) ==
    UNION {UNION {{<<p>> \o rest : rest \in {<<>>} \cup ClustersUpTo(v - d)} :
                  p \in PointsOfDim(d)} : d \in 1..Min(MaxDim, v)}

RECURSIVE DatasetsUpTo(_)
\* The cluster maps (in iteration order) that hold at most v coordinates.
DatasetsUpTo(v) ==
    {<<>>} \cup
    UNION {{<<c>> \o rest : rest \in DatasetsUpTo(v - NumValues(c, 1))} :
           c \in ClustersUpTo(v)}

\* The dataset of the documented scenario: coordinates 0, 1, 10, 11 in one
\* dimension with labels 0, 0, 1, 1.
ScenarioCluster0 == <<<<0 * Scale>>, <<1 * Scale>>>>
ScenarioCluster1 == <<<<10 * Scale>>, <<11 * Scale>>>>
Scenarios == {<<ScenarioCluster0, ScenarioCluster1>>,
              <<ScenarioCluster1, ScenarioCluster0>>}

\* The maps the function is entered with.  Clusters are non-empty and points
\* have at least one coordinate, as in every map main builds from a frame
\* with a point column (its keys are the labels of the rows); the dimensions
\* of the points are free, as the type Vec<Vec<f64>> leaves them.
Inputs == DatasetsUpTo(MaxValues) \cup Scenarios

\* ----------------------------------------------------------- state machine
\* compute_silhouette_score is entered with the map `clusters`.
Init ==
    /\ clusters \in Inputs
    /\ centroids = <<>>
    /\ scores = <<>>
    /\ locals = <<>>
    /\ pc = IF Len(clusters) = 0 THEN "mean" ELSE "centroids"
    /\ ci = 1
    /\ pi = 1
    /\ score = NaN
    /\ panic = "none"

\* One iteration of the first loop: the centroid of the next cluster is
\* computed and inserted, or compute_centroid panics.
InsertCentroid ==
    /\ pc = "centroids"
    /\ LET c == compute_centroid(clusters[ci])
       IN IF c.err # "none"
          THEN /\ pc' = "panicked"
               /\ panic' = c.err
               /\ UNCHANGED <<centroids, ci>>
          ELSE /\ centroids' = Append(centroids, c.val)
               /\ IF ci = Len(clusters)
                  THEN pc' = "scoring" /\ ci' = 1
                  ELSE pc' = "centroids" /\ ci' = ci + 1
               /\ panic' = panic
    /\ UNCHANGED <<clusters, scores, locals, pi, score>>

\* One iteration of the loop over the points of cluster ci: a, b and s of
\* the point are computed and s is pushed, or the metric panics.
ScorePoint ==
    /\ pc = "scoring"
    /\ LET points == clusters[ci]
           ratio == Ratio(points)
           point == points[pi]
           d == euclidean_metric(point, centroids[ci])
           b == Separation(point, ci, centroids)
       IN IF d.err # "none" \/ b.err # "none"
          THEN /\ pc' = "panicked"
               /\ panic' = IF d.err # "none" THEN d.err ELSE b.err
               /\ UNCHANGED <<scores, locals, ci, pi>>
          ELSE LET a == Cohesion(ratio, d.val)
                   s == Coefficient(a, b.val)
               IN /\ scores' = Append(scores, s)
                  /\ locals' = Append(locals,
                        [cluster |-> ci, index |-> pi, a |-> a, b |-> b.val, s |-> s])
                  /\ IF pi < Len(points)
                     THEN pi' = pi + 1 /\ ci' = ci /\ pc' = pc
                     ELSE /\ pi' = 1
                          /\ IF ci < Len(clusters)
                             THEN ci' = ci + 1 /\ pc' = pc
                             ELSE ci' = ci /\ pc' = "mean"
                  /\ panic' = panic
    /\ UNCHANGED <<clusters, centroids, score>>

\* let score = compute_mean(&scores); return score;
ReturnScore ==
    /\ pc = "mean"
    /\ score' = compute_mean(scores)
    /\ pc' = "done"
    /\ UNCHANGED <<clusters, centroids, scores, locals, ci, pi, panic>>

Next == InsertCentroid \/ ScorePoint \/ ReturnScore

Spec == Init /\ [][Next]_vars

\* ------------------------------------------------------------ properties
Members(l) == clusters[l.cluster]
Point(l) == clusters[l.cluster][l.index]
Locals == {locals[i] : i \in 1..Len(locals)}

\* The distance from the point of the record l to the stored centroid j.
DistToCentroid(l, j) == euclidean_metric(Point(l), centroids[j]).val

\* Every point of the cluster has the dimension of the first.
Uniform(points) == \A i \in 1..Len(points) : Len(points[i]) = Len(points[1])

\* The j-th coordinates of the members of a cluster.
Column(points, j) == [i \in 1..Len(points) |-> points[i][j]]

\* The vector of the medians of the coordinates, for a uniform cluster.
CoordinateMedians(points) ==
    [j \in 1..Len(points[1]) |-> compute_median(Column(points, j)).val]

\* The centroid phase ended in a panic on cluster ci.
CentroidPanicked == pc = "panicked" /\ Len(centroids) < Len(clusters)

\* C1: for every non-empty cluster of m points of one dimension d,
\* compute_centroid returns the vector of the d coordinate-wise medians of
\* its members, and it does not index outside the cluster.
C1_CentroidIsCoordinateMedian ==
    /\ \A i \in 1..Len(centroids) :
          Uniform(clusters[i]) => centroids[i] = CoordinateMedians(clusters[i])
    /\ (CentroidPanicked /\ Uniform(clusters[ci])) => panic # "IndexOutOfBounds"

\* C2: for every point whose cluster has exactly one member, a is 0 and
\* the point's coefficient is a finite number.
C2_SingletonCohesionZero ==
    \A l \in Locals :
        Len(Members(l)) = 1 => l.a = Fin(0) /\ IsFinite(l.s)

\* C3: for every point with a = b = 0 the coefficient is exactly 0.
C3_DegenerateCoefficientZero ==
    \A l \in Locals :
        (l.a = Fin(0) /\ l.b = Fin(0)) => l.s = Fin(0)

\* C4: with exactly one cluster the function does not return a score
\* computed with b left at its initial +infinity.
C4_SingleClusterFails ==
    ~(Len(clusters) = 1 /\ pc = "done" /\ \E l \in Locals : l.b = PInf)

\* C5: with an empty dataset the function fails instead of returning the
\* mean of an empty score list.
C5_EmptyDatasetFails == Len(clusters) = 0 => pc # "done"

InUnitInterval(x) == IsFinite(x) /\ -Scale <= x.v /\ x.v <= Scale

\* C6: with at least two clusters the returned mean, and every per-point
\* coefficient that enters it, lies in [-1, 1].
C6_ScoreInUnitInterval ==
    (Len(clusters) >= 2 /\ pc = "done") =>
        /\ InUnitInterval(score)
        /\ \A l \in Locals : InUnitInterval(l.s)

\* Two points of the dataset differ in dimension.
MixedDimensions ==
    \E i, j \in 1..Len(clusters) :
        \E p \in 1..Len(clusters[i]), q \in 1..Len(clusters[j]) :
            Len(clusters[i][p]) # Len(clusters[j][q])

\* C7: on a dataset with points of different dimensions the computation
\* fails with DimensionMismatch: it returns no score and does not fail with
\* another fault first.
C7_MismatchIsDimensionMismatch ==
    MixedDimensions =>
        /\ pc # "done"
        /\ pc = "panicked" => panic = "DimensionMismatch"

C8_Scenario ==
    (clusters \in Scenarios /\ pc = "done") =>
        /\ \A l \in Locals :
              /\ l.a = FromInt(1)
              /\ l.b \in {Fin((19 * Scale) \div 2), Fin((21 * Scale) \div 2)}
        /\ IsFinite(score) /\ 5 * score.v > 4 * Scale


C10_SeparationIsMinOverOthers ==
    \A l \in Locals :
        LET others == (1..Len(clusters)) \ {l.cluster}
        IN others # {} =>
              /\ \E j \in others : l.b = DistToCentroid(l, j)
              /\ \A j \in others : ~FLt(DistToCentroid(l, j), l.b)

\* A point with two other clusters at different distances has been
\* scored, the nearer one coming later in the iteration order.
C10_Witness ==
    \E l \in Locals :
        \E j1, j2 \in (1..Len(clusters)) \ {l.cluster} :
            /\ j1 < j2
            /\ FLt(DistToCentroid(l, j2), DistToCentroid(l, j1))
            /\ l.b = DistToCentroid(l, j2)

====
